---- MODULE Spec2Model ----
(***************************************************************************)
(* LiveTrade: the limit-order strategy (src/src/trading/strategy.py), the  *)
(* SMA indicator (src/src/trading/indicators.py) and the order gateway     *)
(* (src/src/api/kraken_client.py) as a state machine.                      *)
(*                                                                         *)
(* Units.  Closing prices are integers in hundredths of a quote unit, the  *)
(* SMA is the exact rational <<sum, count>> of hundredths, order prices    *)
(* are integers in tenths (format_price rounds to one decimal), entry_sma  *)
(* is the exact rational <<num, den>> of tenths, the volume is an integer  *)
(* in thousandths and balances are integers in 1e-4 quote units, so that   *)
(* volume * price and the balance compare as integers.                     *)
(*                                                                         *)
(* One execute() call is a sequence of steps, one per gateway or           *)
(* data-source call, with pc naming the call that comes next; pc = "idle"  *)
(* is the runner between two ticks.                                        *)
(***************************************************************************)
EXTENDS Integers, Sequences, FiniteSets, TLC

\* ------------------------------------------------------------------------
\* Values
\* ------------------------------------------------------------------------

\* Python None for active_order (order ids are 1, 2, ...).
None == 0

\* Python None for entry_sma (a rational is a pair).
NoSma == <<>>

\* float('nan') as a rational and as a price.
NaNRat == <<0, 0>>

NaN == -1

\* Bound: the gateway accepts at most this many live orders in one run
\* (further placements are rejected by the exchange).
MaxOrders == 3

\* Bound: the number of shutdown signals (SIGINT, SIGTERM) delivered in a run.
MaxSignals == 1

\* Bound: the longest series of closes drawn for the indicator.
MaxSamples == 3

\* Bound: the widest SMA window drawn for the indicator, besides SmaLength.
MaxWindow == 3

\* config['volume'] = 0.001, in thousandths.
Volume == 1

\* config['sma_length'].
SmaLength == 25

\* config['depeg_percentage'] values the constructor accepts (it checks none).
DepegValues == {0, 4, 100}

\* Closing-price series the data source may return (hundredths).
FlatSeries == [i \in 1..26 |-> 10000]

MovedSeries == [i \in 1..26 |-> IF i = 26 THEN 9750 ELSE 10000]

ShortSeries == [i \in 1..10 |-> 10000]

CloseSeries == {FlatSeries, MovedSeries, ShortSeries}

\* config['pair'] and the pairs the indicator is asked about.
Pair == "XXBTZUSD"

Pairs == {Pair, "XETHZUSD"}

\* Candle timeframes in minutes; calculate_target_price asks for 60.
Hour == 60

Timeframes == {Hour, 15}

\* The closes (hundredths) the drawn series are made of.
CloseValues == {10000, 9987, 10013}

RECURSIVE SeriesUpTo(_)
\* Every series of at most n closes.
SeriesUpTo(n) ==
    IF n = 0 THEN {<<>>}
    ELSE LET shorter == SeriesUpTo(n - 1)
         IN  shorter \cup {Append(c, v) : c \in shorter, v \in CloseValues}

\* What the data source may return to the indicator.
IndicatorSeries == SeriesUpTo(MaxSamples) \cup CloseSeries

\* The windows the indicator is asked for.
IndicatorLengths == (1 .. MaxWindow) \cup {SmaLength}

\* The depeg percentages calculate_target_price is tried with.
IndicatorDepegs == {0, 4, 7, 100}

\* Account balances the gateway may return: currency -> amount (1e-4 units).
BalanceResponses ==
    { [c \in {"ZUSD"} |-> 10000000],
      [c \in {"ZUSD"} |-> 959],
      [c \in {"XXBT"} |-> 10000000] }

\* ------------------------------------------------------------------------
\* Pure functions
\* ------------------------------------------------------------------------

RECURSIVE SumLast(_, _)
\* Sum of the last n elements of s (n <= Len(s)).
SumLast(s, n) ==
    IF n = 0 THEN 0 ELSE s[Len(s) - n + 1] + SumLast(s, n - 1)

\* Mutant of calculate_sma: the mean of the whole series.
CalculateSmaWholeSeries(closes, length) ==
    IF Len(closes) < length THEN NaNRat
    ELSE <<SumLast(closes, Len(closes)), Len(closes)>>

\* ohlc['close'].rolling(window=length).mean().iloc[-1]: NaN when the series
\* is shorter than the window, else the mean of the last `length` closes.
calculate_sma(closes, length) ==
    IF Len(closes) < length THEN NaNRat
    ELSE <<SumLast(closes, length), length>>

\* round() of the non-negative rational n/d to the nearest integer, ties to
\* the even neighbour.
RoundHalfEven(n, d) ==
    LET q == n \div d
        r == n % d
    IN  IF 2 * r < d THEN q
        ELSE IF 2 * r > d THEN q + 1
        ELSE IF q % 2 = 0 THEN q ELSE q + 1

\* Mutant of format_price: the price is cut to one decimal, not rounded.
FormatPriceCut(price) ==
    IF price = NaNRat THEN NaN ELSE price[1] \div price[2]

\* round(price, 1) of a rational number of tenths; NaN stays NaN.
format_price(price) ==
    IF price = NaNRat THEN NaN ELSE RoundHalfEven(price[1], price[2])

\* sma * (1 - depeg/100), formatted: sma is in hundredths, the result in tenths.
calculate_target_price(sma, depeg) ==
    IF sma = NaNRat THEN NaN
    ELSE format_price(<<sma[1] * (100 - depeg), sma[2] * 1000>>)

\* target_price / (1 - depeg/100) (depeg < 100), as a rational of tenths.
EntrySmaOf(target_price, depeg) ==
    IF target_price = NaN THEN NaNRat ELSE <<target_price * 100, 100 - depeg>>

\* balance.get(base_currency, 0)
BalanceOf(balance) ==
    IF "ZUSD" \in DOMAIN balance THEN balance["ZUSD"] ELSE 0

\* volume * target_price
RequiredFunds(target_price) ==
    IF target_price = NaN THEN NaN ELSE Volume * target_price

\* Mutant of HasBalance: the balance is compared with the volume, not with
\* volume * price.
HasBalanceVolumeOnly(balance, required) ==
    required # NaN /\ BalanceOf(balance) >= Volume

\* float(balance) >= required: every comparison with NaN is False.
HasBalance(balance, required) ==
    required # NaN /\ BalanceOf(balance) >= required

\* Mutant of EntryValidate: the entry order is always a live order.
EntryValidateNever(tm) == FALSE

\* validate=self.test_mode on the entry order.
EntryValidate(tm) == tm

\* order['txid'][0]
TxidOf(order) == order.txid[1]

\* ------------------------------------------------------------------------
\* State
\* ------------------------------------------------------------------------

VARIABLES
    test_mode,      \* LimitStrategy.test_mode
    depeg,          \* config['depeg_percentage']
    sma_length,     \* config['sma_length']
    pair,           \* config['pair']
    active_order,   \* LimitStrategy.active_order
    entry_sma,      \* LimitStrategy.entry_sma
    in_position,    \* LimitStrategy.in_position
    orders,         \* the exchange: order id -> [side, price, volume, status]
    pc,             \* the next step of the tick in progress, or "idle"
    balance,        \* check_balance_for_order: balance
    required,       \* check_balance_for_order: required
    sma_value,      \* calculate_target_price: sma
    target_price,   \* execute: target_price / new_target
    order_details,  \* execute: order_details[self.active_order]
    running,        \* main.py: the global shutdown flag
    loop,           \* main.py: the loop is at its "test" of the flag, or has
                    \* passed it and is at its "call" of execute()
    signals,        \* the number of shutdown signals delivered so far
    shutdown_log,   \* history: the handle_shutdown() calls and their cancels
    ind_caller,     \* who calls Indicator.calculate_sma: "test" or "strategy"
    ind_call,       \* calculate_sma: [pair, timeframe, length]
    ohlc_data,      \* the closes the data source returns for that call
    fetched,        \* history: the get_historical_data calls of that call
    sma_out,        \* what calculate_sma returned or raised
    target_out,     \* what calculate_target_price returned or raised
    ind_pc,         \* the next step of that call, or "off"
    tick_start,     \* history: <<active_order, entry_sma, in_position>> at tick start
    tick_calls,     \* history: the order calls made to the gateway in this tick
    tick_failed,    \* history: the call that failed in this tick, or ""
    tick_raised,    \* history: execute() let the exception out to its caller
    ticked          \* history: some tick has returned

engine == <<active_order, entry_sma, in_position>>

\* What the steps of a tick never write: the configuration and the runner's
\* state.
setup == <<test_mode, depeg, sma_length, pair, running, loop, signals,
           shutdown_log,
           ind_caller, ind_call, ohlc_data, fetched, sma_out, target_out,
           ind_pc>>

config == <<test_mode, depeg, sma_length, pair>>

runner == <<running, signals, shutdown_log>>

indicator == <<ind_caller, ind_call, ohlc_data, fetched, sma_out, target_out,
               ind_pc>>

locals == <<balance, required, sma_value, target_price, order_details>>

history == <<tick_start, tick_calls, tick_failed, tick_raised, ticked>>

vars == <<test_mode, depeg, sma_length, pair, ind_caller, ind_call, ohlc_data,
          fetched, sma_out, target_out, ind_pc, active_order, entry_sma, in_position,
          orders, pc, balance, required, sma_value, target_price,
          order_details, running, loop, signals, shutdown_log,
          tick_start, tick_calls, tick_failed, tick_raised, ticked>>

NoDetails == [status |-> "", price |-> NaN]

NoBalance == [c \in {} |-> 0]

NoCall == [pair |-> "", timeframe |-> 0, length |-> 0]

NoOutcome == [kind |-> "none", value |-> NaN, error |-> ""]

\* A call returned `value`.
ReturnedValue(value) == [kind |-> "returned", value |-> value, error |-> ""]

\* A call raised `error`.
RaisedError(error) == [kind |-> "raised", value |-> NaN, error |-> error]

\* No direct call of the indicator is in progress.
IndicatorOff ==
    /\ ind_caller = ""
    /\ ind_call = NoCall
    /\ ohlc_data = <<>>
    /\ fetched = <<>>
    /\ sma_out = NoOutcome
    /\ target_out = NoOutcome
    /\ ind_pc = "off"

\* LimitStrategy.__init__, and the state of the exchange and of the runner
\* when it returns.
InitStrategy ==
    /\ active_order = None
    /\ entry_sma = NoSma
    /\ in_position = FALSE
    /\ orders = <<>>
    /\ pc = "idle"
    /\ balance = NoBalance
    /\ required = NaN
    /\ sma_value = NoSma
    /\ target_price = NaN
    /\ order_details = NoDetails
    /\ running = TRUE
    /\ loop = "test"
    /\ signals = 0
    /\ shutdown_log = <<>>
    /\ tick_start = <<None, NoSma, FALSE>>
    /\ tick_calls = <<>>
    /\ tick_failed = ""
    /\ tick_raised = FALSE
    /\ ticked = FALSE

\* The engine as the tests construct it, before its first tick.
Init ==
    /\ test_mode \in BOOLEAN
    /\ depeg \in DepegValues
    /\ sma_length = SmaLength
    /\ pair = Pair
    /\ InitStrategy
    /\ IndicatorOff


\* ------------------------------------------------------------------------
\* The gateway and the exchange behind it
\* ------------------------------------------------------------------------

\* The id the exchange gives the next order.
NextTxid == Len(orders) + 1

\* add_standard_order(validate=False) accepted: the order rests on the book.
Rest(book, side, price) ==
    Append(book, [side |-> side, price |-> price, volume |-> Volume,
                  status |-> "open"])

\* CancelOrder accepted: the order leaves the book.
Cancelled(book, id) == [book EXCEPT ![id].status = "canceled"]

\* One entry of the history of order calls.
Call(op, via, side, price, validate, id, ok) ==
    [op |-> op, via |-> via, side |-> side, price |-> price,
     volume |-> Volume, validate |-> validate, id |-> id, ok |-> ok]

\* The assignments to self.active_order, self.entry_sma, self.in_position.
SetEngine(after) ==
    /\ active_order' = after[1]
    /\ entry_sma' = after[2]
    /\ in_position' = after[3]

\* Mutant of Caught: only the gateway's and the data source's errors are
\* caught.
CaughtGatewayErrorsOnly(failed) ==
    failed \in {"get_account_balance", "get_historical_data",
                "place_limit_order", "get_order_details", "cancel_order"}

\* except Exception as e: every error a call or a computation raises is an
\* Exception, so the handler takes it.
Caught(failed) == TRUE

\* execute() returns: normally (failed = "") or after `failed` was raised,
\* which the except clause catches and logs, or lets out to the caller.
Return(failed) ==
    /\ pc' = "idle"
    /\ tick_failed' = failed
    /\ tick_raised' = (failed # "" /\ ~Caught(failed))
    /\ ticked' = TRUE

\* The calls whose failure is a gateway or data-source failure.
GatewayCalls ==
    {"get_account_balance", "get_historical_data", "place_limit_order",
     "get_order_details", "cancel_order"}

\* What execute() can catch in a tick: a failing call, a response it cannot
\* read, or an error of its own arithmetic.
TickErrors ==
    GatewayCalls \cup {"malformed_response", "ZeroDivisionError", "TypeError"}

\* ------------------------------------------------------------------------
\* LimitStrategy.execute
\* ------------------------------------------------------------------------

\* not self.in_position and not self.active_order
EntryBranch == ~in_position /\ active_order = None

\* elif self.active_order and not self.test_mode
ManagementBranch == active_order # None /\ ~test_mode

\* Mutant of LoopContinues: the loop does not look at the flag.
LoopContinuesAlways == TRUE

\* while running:
LoopContinues == running

\* The loop tests the flag, after the sleep that follows a tick, and goes on
\* to its body.
LoopTest ==
    /\ pc = "idle"
    /\ loop = "test"
    /\ LoopContinues
    /\ loop' = "call"
    /\ UNCHANGED <<config, runner, indicator, engine, orders, pc, locals,
                   history>>

\* strategy.execute() is called.  The tick takes the entry branch, the order
\* management branch, or neither (and returns at once).
Execute ==
    /\ pc = "idle"
    /\ loop = "call"
    /\ loop' = "test"
    /\ tick_start' = <<active_order, entry_sma, in_position>>
    /\ tick_calls' = <<>>
    /\ tick_failed' = ""
    /\ balance' = NoBalance
    /\ tick_raised' = FALSE
    /\ required' = NaN
    /\ sma_value' = NoSma
    /\ target_price' = NaN
    /\ order_details' = NoDetails
    /\ IF EntryBranch THEN pc' = "check_balance" /\ ticked' = ticked
       ELSE IF ManagementBranch THEN pc' = "order_mgmt" /\ ticked' = ticked
       ELSE pc' = "idle" /\ ticked' = TRUE
    /\ UNCHANGED <<config, runner, indicator, engine, orders>>

\* check_balance_for_order in test mode: True without any call.
CheckBalanceTestMode ==
    /\ pc = "check_balance"
    /\ test_mode
    /\ pc' = "calc_target"
    /\ UNCHANGED <<setup, engine, orders, locals, history>>

\* check_balance_for_order: get_account_balance() returns.
GetAccountBalance ==
    /\ pc = "check_balance"
    /\ ~test_mode
    /\ \E resp \in BalanceResponses : balance' = resp
    /\ pc' = "cb_target"
    /\ UNCHANGED <<setup, engine, orders, required, sma_value, target_price,
                   order_details, history>>

\* check_balance_for_order: get_account_balance() raises; the check returns
\* False and execute() returns.
GetAccountBalanceFails ==
    /\ pc = "check_balance"
    /\ ~test_mode
    /\ Return("get_account_balance")
    /\ UNCHANGED <<setup, engine, orders, locals, tick_start, tick_calls>>

\* check_balance_for_order: required = volume * calculate_target_price(),
\* then the comparison; execute() returns when it is False.
CheckBalanceTarget ==
    /\ pc = "cb_target"
    /\ \E closes \in CloseSeries :
         /\ sma_value' = calculate_sma(closes, sma_length)
         /\ required' = RequiredFunds(calculate_target_price(sma_value', depeg))
    /\ IF HasBalance(balance, required')
       THEN pc' = "calc_target" /\ UNCHANGED <<tick_failed, tick_raised, ticked>>
       ELSE Return("")
    /\ UNCHANGED <<setup, engine, orders, balance, target_price,
                   order_details, tick_start, tick_calls>>

\* check_balance_for_order: the data source raises inside
\* calculate_target_price(); the check returns False.
CheckBalanceTargetFails ==
    /\ pc = "cb_target"
    /\ Return("get_historical_data")
    /\ UNCHANGED <<setup, engine, orders, locals, tick_start, tick_calls>>

\* target_price = self.calculate_target_price()
CalcTarget ==
    /\ pc = "calc_target"
    /\ \E closes \in CloseSeries :
         /\ sma_value' = calculate_sma(closes, sma_length)
         /\ target_price' = calculate_target_price(sma_value', depeg)
    /\ pc' = "place_buy"
    /\ UNCHANGED <<setup, engine, orders, balance, required, order_details,
                   history>>

\* calculate_target_price() raises out of the entry branch.
CalcTargetFails ==
    /\ pc = "calc_target"
    /\ Return("get_historical_data")
    /\ UNCHANGED <<setup, engine, orders, locals, tick_start, tick_calls>>

\* Mutant of BuyPlaced: the acknowledged buy order is taken as filled.
BuyPlacedAsFilled(order, price) ==
    <<TxidOf(order),
      IF depeg = 100 THEN entry_sma ELSE EntrySmaOf(price, depeg),
      TRUE>>

\* The engine's state after a live buy order was acknowledged:
\* active_order = order['txid'][0], then entry_sma = target_price / (1 -
\* depeg/100), which raises ZeroDivisionError (entry_sma keeps its value) when
\* depeg is 100.
BuyPlaced(order, price) ==
    <<TxidOf(order),
      IF depeg = 100 THEN entry_sma ELSE EntrySmaOf(price, depeg),
      in_position>>

\* place_limit_order(side='buy', validate=self.test_mode) returns.
PlaceBuy ==
    /\ pc = "place_buy"
    /\ LET validate == EntryValidate(test_mode)
           order == [txid |-> IF validate THEN <<>> ELSE <<NextTxid>>]
       IN  /\ validate \/ Len(orders) < MaxOrders
           /\ orders' = IF validate THEN orders
                        ELSE Rest(orders, "buy", target_price)
           /\ tick_calls' = Append(tick_calls,
                  Call("place", "execute", "buy", target_price, validate,
                       IF validate THEN None ELSE NextTxid, TRUE))
           /\ IF test_mode
              THEN UNCHANGED engine /\ Return("")
              ELSE /\ SetEngine(BuyPlaced(order, target_price))
                   /\ Return(IF depeg = 100 THEN "ZeroDivisionError" ELSE "")
    /\ UNCHANGED <<setup, locals, tick_start>>

\* place_limit_order(side='buy', validate=False) rests the order but its
\* response has no 'txid': order['txid'][0] raises before any assignment.
PlaceBuyMalformed ==
    /\ pc = "place_buy"
    /\ ~test_mode
    /\ Len(orders) < MaxOrders
    /\ orders' = Rest(orders, "buy", target_price)
    /\ tick_calls' = Append(tick_calls,
           Call("place", "execute", "buy", target_price,
                EntryValidate(test_mode), None, TRUE))
    /\ Return("malformed_response")
    /\ UNCHANGED <<setup, engine, locals, tick_start>>

\* place_limit_order(side='buy') raises.
PlaceBuyFails ==
    /\ pc = "place_buy"
    /\ tick_calls' = Append(tick_calls,
           Call("place", "execute", "buy", target_price,
                EntryValidate(test_mode), None, FALSE))
    /\ Return("place_limit_order")
    /\ UNCHANGED <<setup, engine, orders, locals, tick_start>>


\* order_details[self.active_order] as the exchange reports the order.
DetailsOf(book, id) == [status |-> book[id].status, price |-> book[id].price]

\* get_order_details(self.active_order) returns; `after` is the engine state
\* and `next` the step that follows the branch taken on the status read.
ReadDetails(after, next) ==
    /\ pc = "order_mgmt"
    /\ order_details' = DetailsOf(orders, active_order)
    /\ SetEngine(after)
    /\ IF next = "idle" THEN Return("")
       ELSE IF next = "TypeError" THEN Return("TypeError")
       ELSE pc' = next /\ UNCHANGED <<tick_failed, tick_raised, ticked>>
    /\ UNCHANGED <<setup, orders, balance, required, sma_value, target_price,
                   tick_start, tick_calls>>

\* if status == 'closed': if not self.in_position
BuyFilledBranch(status) == status = "closed" /\ ~in_position

\* Mutant of SellFilledBranch: the position is closed whatever the status.
SellFilledBranchAnyStatus(status) == in_position

\* if status == 'closed': else
SellFilledBranch(status) == status = "closed" /\ in_position

\* Mutant of RepriceBranch: the sell leg is re-priced like the buy leg.
RepriceBranchAnyLeg(status) == status # "closed"

\* elif not self.in_position
RepriceBranch(status) == status # "closed" /\ ~in_position

\* Mutant of PositionOpened: the filled buy order's id is dropped.
PositionOpenedDropsOrder == <<None, entry_sma, TRUE>>

\* The engine's state after self.in_position = True.
PositionOpened == <<active_order, entry_sma, TRUE>>

\* Buy order filled: self.in_position = True, then the sell price
\* self.format_price(self.entry_sma), which raises TypeError on None.
BuyFilled ==
    /\ pc = "order_mgmt"
    /\ BuyFilledBranch(orders[active_order].status)
    /\ ReadDetails(PositionOpened,
                   IF entry_sma = NoSma THEN "TypeError" ELSE "place_sell")

\* Mutant of PositionClosed: entry_sma is not cleared.
PositionClosedKeepsSma == <<None, entry_sma, FALSE>>

\* The engine's state after the sell order was seen filled.
PositionClosed == <<None, NoSma, FALSE>>

\* Sell order filled: the position is closed.
SellFilled ==
    /\ pc = "order_mgmt"
    /\ SellFilledBranch(orders[active_order].status)
    /\ ReadDetails(PositionClosed, "idle")

\* Buy order not filled: go on to re-price it.
BuyOpen ==
    /\ pc = "order_mgmt"
    /\ RepriceBranch(orders[active_order].status)
    /\ ReadDetails(engine, "reprice_target")

\* Sell order not filled: nothing to do.
SellOpen ==
    /\ pc = "order_mgmt"
    /\ ~BuyFilledBranch(orders[active_order].status)
    /\ ~SellFilledBranch(orders[active_order].status)
    /\ ~RepriceBranch(orders[active_order].status)
    /\ ReadDetails(engine, "idle")

\* get_order_details returns a response without the order's entry:
\* order_details[self.active_order]['status'] raises.
GetOrderDetailsMalformed ==
    /\ pc = "order_mgmt"
    /\ Return("malformed_response")
    /\ UNCHANGED <<setup, engine, orders, locals, tick_start, tick_calls>>

\* get_order_details raises.
GetOrderDetailsFails ==
    /\ pc = "order_mgmt"
    /\ Return("get_order_details")
    /\ UNCHANGED <<setup, engine, orders, locals, tick_start, tick_calls>>

\* Mutant of SellPrice: the price is truncated to one decimal, not rounded.
SellPriceTruncated(sma) ==
    IF sma = NaNRat THEN NaN ELSE sma[1] \div sma[2]

\* price=self.format_price(self.entry_sma)
SellPrice(sma) == format_price(sma)

\* Mutant of SellPlaced: the sell order's id is not kept.
SellPlacedUntracked(sell_order) == None

\* self.active_order = sell_order['txid'][0]
SellPlaced(sell_order) == TxidOf(sell_order)

\* place_limit_order(side='sell', validate=False) returns:
\* self.active_order = sell_order['txid'][0].
PlaceSell ==
    /\ pc = "place_sell"
    /\ Len(orders) < MaxOrders
    /\ LET sell_order == [txid |-> <<NextTxid>>]
       IN  /\ orders' = Rest(orders, "sell", SellPrice(entry_sma))
           /\ tick_calls' = Append(tick_calls,
                  Call("place", "execute", "sell", SellPrice(entry_sma),
                       FALSE, NextTxid, TRUE))
           /\ active_order' = SellPlaced(sell_order)
    /\ Return("")
    /\ UNCHANGED <<setup, entry_sma, in_position, locals, tick_start>>

\* place_limit_order(side='sell') rests the order but its response has no
\* 'txid': sell_order['txid'][0] raises, active_order keeps the buy order's
\* id and in_position stays True.
PlaceSellMalformed ==
    /\ pc = "place_sell"
    /\ Len(orders) < MaxOrders
    /\ orders' = Rest(orders, "sell", SellPrice(entry_sma))
    /\ tick_calls' = Append(tick_calls,
           Call("place", "execute", "sell", SellPrice(entry_sma),
                FALSE, None, TRUE))
    /\ Return("malformed_response")
    /\ UNCHANGED <<setup, engine, locals, tick_start>>

\* place_limit_order(side='sell') raises: in_position stays True.
PlaceSellFails ==
    /\ pc = "place_sell"
    /\ tick_calls' = Append(tick_calls,
           Call("place", "execute", "sell", SellPrice(entry_sma),
                FALSE, None, FALSE))
    /\ Return("place_limit_order")
    /\ UNCHANGED <<setup, engine, orders, locals, tick_start>>

\* Mutant of PriceDiffers: prices one tick apart count as equal.
PriceDiffersBeyondTick(new_target, current_price) ==
    \/ new_target = NaN
    \/ current_price = NaN
    \/ new_target > current_price + 1
    \/ current_price > new_target + 1

\* new_target != current_price on floats: NaN differs from everything.
PriceDiffers(new_target, current_price) ==
    new_target = NaN \/ current_price = NaN \/ new_target # current_price

\* new_target = self.calculate_target_price(), compared with the resting
\* order's price.
RepriceTarget ==
    /\ pc = "reprice_target"
    /\ \E closes \in CloseSeries :
         /\ sma_value' = calculate_sma(closes, sma_length)
         /\ target_price' = calculate_target_price(sma_value', depeg)
    /\ IF PriceDiffers(target_price', order_details.price)
       THEN pc' = "update_cancel" /\ UNCHANGED <<tick_failed, tick_raised, ticked>>
       ELSE Return("")
    /\ UNCHANGED <<setup, engine, orders, balance, required, order_details,
                   tick_start, tick_calls>>

\* calculate_target_price() raises out of the re-price branch.
RepriceTargetFails ==
    /\ pc = "reprice_target"
    /\ Return("get_historical_data")
    /\ UNCHANGED <<setup, engine, orders, locals, tick_start, tick_calls>>

\* update_limit_order: cancel_order(order_id) is accepted.
UpdateCancel ==
    /\ pc = "update_cancel"
    /\ orders[active_order].status = "open"
    /\ orders' = Cancelled(orders, active_order)
    /\ tick_calls' = Append(tick_calls,
           Call("cancel", "update", orders[active_order].side,
                orders[active_order].price, FALSE, active_order, TRUE))
    /\ pc' = "update_place"
    /\ UNCHANGED <<setup, engine, locals, tick_start, tick_failed, tick_raised,
                   ticked>>

\* update_limit_order: cancel_order raises (transport failure, or the
\* exchange's error for an order that is no longer open); the error
\* propagates and no order is placed.
UpdateCancelFails ==
    /\ pc = "update_cancel"
    /\ tick_calls' = Append(tick_calls,
           Call("cancel", "update", orders[active_order].side,
                orders[active_order].price, FALSE, active_order, FALSE))
    /\ Return("cancel_order")
    /\ UNCHANGED <<setup, engine, orders, locals, tick_start>>

\* Mutant of UpdateValidate: the replacement order is only validated.
UpdateValidateOnly == TRUE

\* update_limit_order: place_limit_order(..., validate=False)
UpdateValidate == FALSE

\* The engine's active_order after update_limit_order returned.
AfterUpdate == None

\* update_limit_order: place_limit_order(side=side, validate=False) returns,
\* then self.active_order = None.
UpdatePlace ==
    /\ pc = "update_place"
    /\ Len(orders) < MaxOrders
    /\ orders' = Rest(orders, "buy", target_price)
    /\ tick_calls' = Append(tick_calls,
           Call("place", "update", "buy", target_price, UpdateValidate,
                NextTxid, TRUE))
    /\ active_order' = AfterUpdate
    /\ Return("")
    /\ UNCHANGED <<setup, entry_sma, in_position, locals, tick_start>>

\* update_limit_order: the replacement placement raises; active_order keeps
\* the id of the cancelled order.
UpdatePlaceFails ==
    /\ pc = "update_place"
    /\ tick_calls' = Append(tick_calls,
           Call("place", "update", "buy", target_price, UpdateValidate,
                None, FALSE))
    /\ Return("place_limit_order")
    /\ UNCHANGED <<setup, engine, orders, locals, tick_start>>

\* ------------------------------------------------------------------------
\* The market
\* ------------------------------------------------------------------------

\* A resting order is matched: the exchange reports it closed from now on.
FillOrder(id) ==
    /\ id \in DOMAIN orders
    /\ orders[id].status = "open"
    /\ orders' = [orders EXCEPT ![id].status = "closed"]
    /\ UNCHANGED <<setup, engine, pc, locals, history>>

Fill == \E id \in 1 .. MaxOrders : FillOrder(id)

\* ------------------------------------------------------------------------
\* main.py: shutdown
\* ------------------------------------------------------------------------

\* if strategy and not strategy.test_mode and strategy.active_order
ShutdownCancels == ~test_mode /\ active_order # None

\* The loop has passed its test of the flag and has not called execute() yet.
Committed == pc = "idle" /\ loop = "call"

\* handle_shutdown(strategy), called `by` the signal handler or by main()'s
\* finally: clears the flag, then cancels the active order of a live
\* strategy; a cancel that raises is caught and logged.  The exchange
\* accepts the cancel of an order that is open.
handle_shutdown(by) ==
    /\ running' = FALSE
    /\ IF ShutdownCancels
       THEN \E ok \in BOOLEAN :
              /\ ok => orders[active_order].status = "open"
              /\ orders' = IF ok THEN Cancelled(orders, active_order)
                           ELSE orders
              /\ shutdown_log' = Append(shutdown_log,
                     [by |-> by, committed |-> Committed,
                      active |-> active_order, cancel |-> active_order,
                      ok |-> ok])
       ELSE /\ orders' = orders
            /\ shutdown_log' = Append(shutdown_log,
                   [by |-> by, committed |-> Committed,
                    active |-> active_order, cancel |-> None, ok |-> FALSE])

\* SIGINT or SIGTERM is delivered: the handler runs handle_shutdown(strategy)
\* between two steps of the main thread, which then goes on where it was.
SignalHandler ==
    /\ pc # "exited"
    /\ signals < MaxSignals
    /\ signals' = signals + 1
    /\ handle_shutdown("signal")
    /\ UNCHANGED <<config, indicator, engine, pc, loop, locals,
                   tick_start, tick_calls, tick_failed, tick_raised, ticked>>

\* The loop finds running False and ends; main()'s finally calls
\* handle_shutdown(strategy) once more and the process exits.
MainFinally ==
    /\ pc = "idle"
    /\ loop = "test"
    /\ ~LoopContinues
    /\ handle_shutdown("finally")
    /\ pc' = "exited"
    /\ UNCHANGED <<config, indicator, signals, engine, loop, locals,
                   tick_start, tick_calls, tick_failed, tick_raised, ticked>>

\* ------------------------------------------------------------------------
\* Indicator.calculate_sma and LimitStrategy.calculate_target_price, called
\* on their own
\* ------------------------------------------------------------------------

\* What the indicator's calls leave alone.
strategy == <<engine, orders, pc, locals, runner, loop, history>>

\* calculate_target_price: self.indicator.calculate_sma(pair=config['pair'],
\* timeframe=60, length=config['sma_length'])
CalculateTargetPrice ==
    /\ ind_pc = "strategy"
    /\ ind_call' = [pair |-> pair, timeframe |-> Hour, length |-> sma_length]
    /\ ind_pc' = "fetch"
    /\ UNCHANGED <<config, strategy, ind_caller, ohlc_data, fetched, sma_out,
                   target_out>>

\* The request get_historical_data is sent for the call in progress.
Fetch == [pair |-> ind_call.pair, interval |-> ind_call.timeframe]

\* calculate_sma: self.client.get_historical_data(pair=pair,
\* interval=timeframe) returns the series.
GetHistoricalData ==
    /\ ind_pc = "fetch"
    /\ fetched' = Append(fetched, Fetch)
    /\ ind_pc' = "mean"
    /\ UNCHANGED <<config, strategy, ind_caller, ind_call, ohlc_data, sma_out,
                   target_out>>

\* calculate_sma: get_historical_data raises; calculate_sma logs and raises
\* it again, and so does calculate_target_price.
GetHistoricalDataFails ==
    /\ ind_pc = "fetch"
    /\ fetched' = Append(fetched, Fetch)
    /\ sma_out' = RaisedError("get_historical_data")
    /\ target_out' = IF ind_caller = "strategy"
                     THEN RaisedError("get_historical_data") ELSE target_out
    /\ ind_pc' = "done"
    /\ UNCHANGED <<config, strategy, ind_caller, ind_call, ohlc_data>>

\* calculate_sma: the rolling mean's last element, as a float; .iloc[-1] of
\* an empty series raises IndexError.
RollingMean ==
    /\ ind_pc = "mean"
    /\ sma_out' = IF ohlc_data = <<>> THEN RaisedError("IndexError")
                  ELSE ReturnedValue(calculate_sma(ohlc_data, ind_call.length))
    /\ target_out' = IF ind_caller = "strategy" /\ ohlc_data = <<>>
                     THEN RaisedError("IndexError") ELSE target_out
    /\ ind_pc' = IF ind_caller = "strategy" /\ ohlc_data # <<>>
                 THEN "target" ELSE "done"
    /\ UNCHANGED <<config, strategy, ind_caller, ind_call, ohlc_data, fetched>>

\* calculate_target_price: sma * (1 - depeg_percentage/100), formatted.
TargetPrice ==
    /\ ind_pc = "target"
    /\ target_out' = ReturnedValue(calculate_target_price(sma_out.value, depeg))
    /\ ind_pc' = "done"
    /\ UNCHANGED <<config, strategy, ind_caller, ind_call, ohlc_data, fetched,
                   sma_out>>

\* ------------------------------------------------------------------------
\* Specification
\* ------------------------------------------------------------------------

Next ==
    \/ LoopTest
    \/ Execute
    \/ CheckBalanceTestMode
    \/ GetAccountBalance
    \/ GetAccountBalanceFails
    \/ CheckBalanceTarget
    \/ CheckBalanceTargetFails
    \/ CalcTarget
    \/ CalcTargetFails
    \/ PlaceBuy
    \/ PlaceBuyMalformed
    \/ PlaceBuyFails
    \/ BuyFilled
    \/ SellFilled
    \/ BuyOpen
    \/ SellOpen
    \/ GetOrderDetailsMalformed
    \/ GetOrderDetailsFails
    \/ PlaceSell
    \/ PlaceSellMalformed
    \/ PlaceSellFails
    \/ RepriceTarget
    \/ RepriceTargetFails
    \/ UpdateCancel
    \/ UpdateCancelFails
    \/ UpdatePlace
    \/ UpdatePlaceFails
    \/ Fill

Spec == Init /\ [][Next]_vars

\* get_order_details returns the order's entry.
GetOrderDetails == BuyFilled \/ SellFilled \/ BuyOpen \/ SellOpen

\* The data source answers calculate_target_price, with a balance check that
\* passes when it is the check's call.
HistoricalDataReturned ==
    \/ CheckBalanceTarget /\ pc' = "calc_target"
    \/ CalcTarget
    \/ RepriceTarget

\* place_limit_order returns an order the engine can read.
OrderPlaced == PlaceBuy \/ PlaceSell \/ UpdatePlace

\* The loop of main.py goes on calling execute(), whose steps each complete;
\* each kind of call, made again and again, eventually succeeds, with a
\* balance that covers the order; an order that rests is eventually matched.
Fairness ==
    /\ WF_vars(Next)
    /\ SF_vars(GetAccountBalance /\ HasBalance(balance', Volume * 1000))
    /\ SF_vars(HistoricalDataReturned)
    /\ SF_vars(OrderPlaced)
    /\ SF_vars(GetOrderDetails)
    /\ SF_vars(UpdateCancel)
    /\ \A id \in 1 .. MaxOrders : WF_vars(FillOrder(id))

SpecFair == Init /\ [][Next]_vars /\ Fairness

\* The engine under main.py's runner, with its shutdown signals.
NextRunner ==
    \/ Next
    \/ SignalHandler
    \/ MainFinally

SpecRunner == Init /\ [][NextRunner]_vars

\* calculate_sma called by a test with a pair, a timeframe and a window, or
\* by calculate_target_price of a strategy with some configuration.
InitIndicator ==
    /\ InitStrategy
    /\ ohlc_data \in IndicatorSeries
    /\ fetched = <<>>
    /\ sma_out = NoOutcome
    /\ target_out = NoOutcome
    /\ test_mode = TRUE
    /\ \/ /\ ind_caller = "test"
          /\ ind_call \in [pair : Pairs, timeframe : Timeframes,
                           length : IndicatorLengths]
          /\ ind_pc = "fetch"
          /\ pair = Pair
          /\ sma_length = SmaLength
          /\ depeg = 4
       \/ /\ ind_caller = "strategy"
          /\ ind_call = NoCall
          /\ ind_pc = "strategy"
          /\ pair \in Pairs
          /\ sma_length \in IndicatorLengths
          /\ depeg \in IndicatorDepegs

NextIndicator ==
    \/ CalculateTargetPrice
    \/ GetHistoricalData
    \/ GetHistoricalDataFails
    \/ RollingMean
    \/ TargetPrice

SpecIndicator == InitIndicator /\ [][NextIndicator]_vars

\* The engine constructed with a configuration inside the documented range
\* depeg_percentage \in [0, 100).
InitValidConfig == Init /\ depeg < 100

SpecValidConfig == InitValidConfig /\ [][Next]_vars


\* ------------------------------------------------------------------------
\* Vocabulary of the properties
\* ------------------------------------------------------------------------

\* execute() has returned at least once and no tick is in progress: the
\* history variables describe the tick that returned last.
Returned == pc = "idle" /\ ticked

\* The derived state the tick started in.
StartIdle == tick_start[1] = None /\ ~tick_start[3]

StartBuyPending == tick_start[1] # None /\ ~tick_start[3]

StartInPosition == tick_start[1] # None /\ tick_start[3]

\* The orders resting on the exchange.
OpenOrders == {id \in DOMAIN orders : orders[id].status = "open"}

\* The buy orders submitted in the tick (placed directly or by the update).
BuySubmissions ==
    {i \in DOMAIN tick_calls :
        tick_calls[i].op = "place" /\ tick_calls[i].side = "buy"}

\* ------------------------------------------------------------------------
\* Properties
\* ------------------------------------------------------------------------

\* C1: in live mode, a tick in which a gateway or data-source call failed
\* leaves (active_order, entry_sma, in_position) as it was when the tick
\* started.
C1_FailedTickLeavesStateUnchanged ==
    (~test_mode /\ Returned /\ tick_failed \in GatewayCalls)
        => engine = tick_start

\* C2: in live mode at most one order placed by the engine is open on the
\* exchange at any time.
C2_AtMostOneOpenOrder ==
    ~test_mode => Cardinality(OpenOrders) <= 1

\* C3: between ticks, whenever in_position is true, active_order is the id of
\* a sell order the engine placed.
C3_InPositionHoldsSellOrder ==
    (pc = "idle" /\ in_position)
        => /\ active_order \in DOMAIN orders
           /\ orders[active_order].side = "sell"

\* C4 (as claimed): a buy order is submitted, by place_limit_order or by the
\* re-price update, only in a tick that began with active_order = None and
\* in_position = false.
C4_BuyOnlyFromIdle ==
    BuySubmissions # {} => StartIdle

\* C4 (amended): execute() itself submits a buy order only in a tick that
\* began with active_order = None and in_position = false, the re-price
\* update submits one only in a tick that began with active_order set and
\* in_position = false, and no buy order is submitted in a tick that began
\* with in_position = true.
C4_BuySubmissionStates ==
    \A i \in BuySubmissions :
        /\ ~tick_start[3]
        /\ tick_calls[i].via = "execute" => StartIdle
        /\ tick_calls[i].via = "update" => StartBuyPending

\* A re-price has submitted its replacement buy order in a tick that began
\* in BUY_PENDING.
C4_Witness ==
    /\ Returned
    /\ StartBuyPending
    /\ \E i \in BuySubmissions : tick_calls[i].via = "update" /\ tick_calls[i].ok

\* C5: in_position = true implies entry_sma is set.
C5_InPositionHasEntrySma ==
    in_position => entry_sma # NoSma

\* C6: in simulation mode the state stays IDLE and nothing rests on the
\* exchange; a tick submits at most one order, always a buy with
\* validate = True, and exactly one when none of its calls failed.
C6_SimulationStaysIdle ==
    test_mode =>
        /\ active_order = None
        /\ ~in_position
        /\ orders = <<>>
        /\ Len(tick_calls) <= 1
        /\ \A i \in DOMAIN tick_calls :
               /\ tick_calls[i].op = "place"
               /\ tick_calls[i].side = "buy"
               /\ tick_calls[i].validate
        /\ (Returned /\ tick_failed = "") => Len(tick_calls) = 1

\* A simulation tick has validated its buy order and returned.
C6_Witness ==
    /\ test_mode
    /\ Returned
    /\ Len(tick_calls) = 1
    /\ tick_calls[1].ok
    /\ tick_calls[1].validate

\* C7: in live mode, a tick that starts in IDLE, reads a balance of at least
\* volume * target price and has no failing gateway or data-source call
\* submits exactly one buy order, not validate-only, for the configured
\* volume at the target price, and returns in BUY_PENDING with active_order
\* the id the gateway returned.
C7_LiveEntryPlacesBuy ==
    (/\ ~test_mode
     /\ Returned
     /\ StartIdle
     /\ required # NaN
     /\ BalanceOf(balance) >= required
     /\ tick_failed \notin GatewayCalls \cup {"malformed_response"})
        => /\ Len(tick_calls) = 1
           /\ tick_calls[1] =
                  [op |-> "place", via |-> "execute", side |-> "buy",
                   price |-> target_price, volume |-> Volume,
                   validate |-> FALSE, id |-> tick_calls[1].id, ok |-> TRUE]
           /\ active_order # None
           /\ active_order = tick_calls[1].id
           /\ ~in_position
           /\ orders[active_order].side = "buy"
           /\ orders[active_order].price = target_price
           /\ orders[active_order].volume = Volume

\* A live tick from IDLE has placed its buy order.
C7_Witness ==
    /\ ~test_mode
    /\ Returned
    /\ StartIdle
    /\ required # NaN
    /\ BalanceOf(balance) >= required
    /\ tick_failed = ""
    /\ active_order # None
    /\ target_price # NaN

\* What C8 concludes of a tick: IN_POSITION, exactly one order call, a
\* successful sell for the configured volume at entry_sma rounded to one
\* decimal, and active_order the new sell order's id, not the buy order's.
C8_SoldOnce ==
    /\ in_position
    /\ Len(tick_calls) = 1
    /\ tick_calls[1] =
           [op |-> "place", via |-> "execute", side |-> "sell",
            price |-> format_price(tick_start[2]), volume |-> Volume,
            validate |-> FALSE, id |-> tick_calls[1].id, ok |-> TRUE]
    /\ active_order # None
    /\ active_order = tick_calls[1].id
    /\ active_order # tick_start[1]
    /\ orders[active_order].side = "sell"
    /\ orders[active_order].price = format_price(tick_start[2])

C9_SellFilledTickClosesPosition ==
    (/\ ~test_mode
     /\ Returned
     /\ StartInPosition
     /\ order_details.status = "closed")
        => /\ active_order = None
           /\ entry_sma = NoSma
           /\ ~in_position
           /\ tick_calls = <<>>

\* A tick has seen the sell order filled; the position had an entry_sma.
C9_Witness ==
    /\ ~test_mode
    /\ Returned
    /\ StartInPosition
    /\ order_details.status = "closed"
    /\ tick_start[2] # NoSma
    /\ orders[tick_start[1]].side = "sell"

\* C10: in live mode, a tick that starts in IDLE and reads a balance of the
\* base currency (0 when absent) below volume * target price makes no order
\* call and leaves the state as it was, IDLE.
C10_InsufficientBalanceNoOrder ==
    (/\ ~test_mode
     /\ Returned
     /\ StartIdle
     /\ required # NaN
     /\ BalanceOf(balance) < required)
        => /\ tick_calls = <<>>
           /\ engine = tick_start
           /\ active_order = None
           /\ ~in_position

\* A tick has returned for lack of funds, the base currency being absent
\* from the balance the gateway returned.
C10_Witness ==
    /\ ~test_mode
    /\ Returned
    /\ StartIdle
    /\ required # NaN
    /\ required > 0
    /\ "ZUSD" \notin DOMAIN balance
    /\ DOMAIN balance # {}
    /\ tick_failed = ""

\* C11: execute() never raises to its caller: whatever fails in a tick (a
\* data-source or gateway call, a computation, a response that cannot be
\* read), the tick returns normally to the runner.
C11_ExecuteNeverRaises ==
    /\ ~tick_raised
    /\ tick_failed \in TickErrors \cup {""}
    /\ (ticked /\ tick_failed # "") => pc = "idle"

\* A tick has returned after an error that is not a gateway exception: an
\* unreadable response or an arithmetic error.
C11_Witness ==
    /\ Returned
    /\ tick_failed \in {"malformed_response", "ZeroDivisionError", "TypeError"}
    /\ ~tick_raised

\* A tick that started in BUY_PENDING in live mode, read the buy order as
\* still open and recomputed the target price.
C12_OpenBuyRepriced ==
    /\ ~test_mode
    /\ Returned
    /\ StartBuyPending
    /\ order_details.status = "open"
    /\ sma_value # NoSma

\* The recomputed target price is not exactly the resting order's price.
C12_Differs ==
    \/ target_price = NaN
    \/ order_details.price = NaN
    \/ target_price # order_details.price

\* The tick cancelled the resting order, placed a buy at the recomputed
\* target through the update operation, and cleared active_order.
C12_Replaced ==
    /\ Len(tick_calls) = 2
    /\ tick_calls[1] =
           [op |-> "cancel", via |-> "update", side |-> "buy",
            price |-> order_details.price, volume |-> Volume,
            validate |-> FALSE, id |-> tick_start[1], ok |-> TRUE]
    /\ tick_calls[2] =
           [op |-> "place", via |-> "update", side |-> "buy",
            price |-> target_price, volume |-> Volume,
            validate |-> FALSE, id |-> tick_calls[2].id, ok |-> TRUE]
    /\ active_order = None
    /\ entry_sma = tick_start[2]
    /\ ~in_position

\* C12 (as claimed): in such a tick the engine performs the combined replace
\* and clears active_order if and only if the prices differ; when they are
\* equal it makes no call and leaves the state unchanged.
C12_ReplacedIffPriceDiffers ==
    C12_OpenBuyRepriced
        => /\ C12_Replaced <=> C12_Differs
           /\ ~C12_Differs => (tick_calls = <<>> /\ engine = tick_start)

\* C12 (amended): in such a tick the engine invokes the combined replace if
\* and only if the prices differ; it clears active_order when the cancel and
\* the placement both succeed and leaves the state unchanged when either
\* fails; when the prices are equal it makes no call and leaves the state
\* unchanged.
C12_ReplaceInvokedIffPriceDiffers ==
    C12_OpenBuyRepriced
        => /\ C12_Differs =>
                /\ Len(tick_calls) >= 1
                /\ tick_calls[1].op = "cancel"
                /\ tick_calls[1].via = "update"
                /\ tick_calls[1].id = tick_start[1]
           /\ (C12_Differs /\ tick_failed = "") => C12_Replaced
           /\ (C12_Differs /\ tick_failed # "") =>
                /\ engine = tick_start
                /\ \A i \in DOMAIN tick_calls :
                       tick_calls[i].op = "place" => ~tick_calls[i].ok
           /\ ~C12_Differs => (tick_calls = <<>> /\ engine = tick_start)

\* A re-price went through: the open buy order was replaced by one at a
\* different price and active_order was cleared.
C12_Witness ==
    /\ C12_OpenBuyRepriced
    /\ target_price # NaN
    /\ order_details.price # NaN
    /\ target_price # order_details.price
    /\ tick_failed = ""
    /\ C12_Replaced

\* C13: every handle_shutdown() call issues cancel_order for active_order if
\* and only if the strategy is live and active_order is set, a cancel that
\* failed is not followed by another cancel request for the same order, and
\* the process exits whatever the cancel did.
C13_ShutdownCancelsOnce ==
    /\ \A i \in DOMAIN shutdown_log :
           shutdown_log[i].cancel # None
               <=> (~test_mode /\ shutdown_log[i].active # None)
    /\ \A i, j \in DOMAIN shutdown_log :
           (i < j /\ shutdown_log[i].cancel # None /\ ~shutdown_log[i].ok)
               => shutdown_log[j].cancel # shutdown_log[i].cancel
    /\ (shutdown_log # <<>> /\ shutdown_log[Len(shutdown_log)].by = "finally")
           => pc = "exited"

\* Equality of two rationals <<numerator, denominator>>.
RatEq(a, b) == a[1] * b[2] = b[1] * a[2]

\* calculate_sma has finished and the data source had answered it.
SmaAnswered ==
    /\ sma_out.kind # "none"
    /\ sma_out.error # "get_historical_data"

\* The sum of the closes from position `from` to the end of the series.
TotalFrom(closes, from) ==
    LET total[i \in (from - 1) .. Len(closes)] ==
            IF i = from - 1 THEN 0 ELSE total[i - 1] + closes[i]
    IN  total[Len(closes)]

\* C14: when the data source returns at least `length` closes, calculate_sma
\* returns the unweighted arithmetic mean of the last `length` of them, and it
\* has fetched the series exactly once, with the pair and the timeframe it
\* was given.
C14_SmaIsMeanOfLastWindow ==
    (SmaAnswered /\ Len(ohlc_data) >= ind_call.length)
        => /\ sma_out.kind = "returned"
           /\ sma_out.value # NaNRat
           /\ RatEq(sma_out.value,
                    <<TotalFrom(ohlc_data,
                                Len(ohlc_data) - ind_call.length + 1),
                      ind_call.length>>)
           /\ fetched = <<[pair |-> ind_call.pair,
                           interval |-> ind_call.timeframe]>>

\* calculate_sma has returned the mean of a window that is shorter than the
\* series and whose mean is not the mean of the series, for a test's call
\* with a timeframe other than the strategy's.
C14_Witness ==
    /\ ind_caller = "test"
    /\ ind_call.timeframe # Hour
    /\ sma_out.kind = "returned"
    /\ Len(ohlc_data) > ind_call.length
    /\ sma_out.value # NaNRat
    /\ ~RatEq(sma_out.value, <<TotalFrom(ohlc_data, 1), Len(ohlc_data)>>)

\* C15: when the data source returns fewer than `length` closes,
\* calculate_sma raises InsufficientDataError and returns nothing.
C15_ShortSeriesRaises ==
    (SmaAnswered /\ Len(ohlc_data) < ind_call.length)
        => sma_out = RaisedError("InsufficientDataError")

\* C16: calculate_target_price asks calculate_sma for the configured pair,
\* 60 minutes and the configured window, and returns that SMA times
\* (1 - depeg_percentage/100) rounded to the nearest tenth; for an SMA of
\* 100.0 and depeg_percentage 4 it returns 96.0.
C16_TargetIsRoundedDepeggedSma ==
    (ind_caller = "strategy" /\ target_out.kind = "returned"
       /\ sma_out.value # NaNRat)
        => /\ ind_call = [pair |-> pair, timeframe |-> Hour,
                          length |-> sma_length]
           /\ sma_out = ReturnedValue(calculate_sma(ohlc_data, sma_length))
           /\ target_out.value # NaN
           /\ LET exact == sma_out.value[1] * (100 - depeg)
                  scale == sma_out.value[2] * 1000
                  off == target_out.value * scale - exact
              IN  2 * off <= scale /\ 2 * (0 - off) <= scale
           /\ (RatEq(sma_out.value, <<10000, 1>>) /\ depeg = 4)
                  => target_out.value = 960

\* calculate_target_price has returned, for depeg_percentage 7, a price that
\* the rounding moved up.
C16_Witness ==
    /\ ind_caller = "strategy"
    /\ target_out.kind = "returned"
    /\ sma_out.value # NaNRat
    /\ target_out.value * sma_out.value[2] * 1000
           > sma_out.value[1] * (100 - depeg)
    /\ depeg = 7

\* The tick started IDLE and rested a live buy order whose id the engine took.
LiveBuyPlaced ==
    /\ ~test_mode
    /\ Returned
    /\ StartIdle
    /\ Len(tick_calls) = 1
    /\ tick_calls[1].op = "place"
    /\ tick_calls[1].ok
    /\ tick_calls[1].id # None

\* C17: a tick that places a live buy order at price p sets entry_sma to
\* p / (1 - depeg_percentage/100), and that value is within half a tenth
\* divided by (1 - depeg_percentage/100) of the SMA that p was computed from.
C17_EntrySmaBackDerived ==
    LiveBuyPlaced =>
        LET p == tick_calls[1].price
        IN  /\ entry_sma # NoSma
            /\ p # NaN
            /\ depeg # 100
            /\ RatEq(entry_sma, <<p * 100, 100 - depeg>>)
            /\ sma_value # NaNRat
            /\ LET diff == entry_sma[1] * 10 * sma_value[2]
                               - sma_value[1] * entry_sma[2]
                   bound == 100 * entry_sma[2] * 10 * sma_value[2]
               IN  /\ 2 * (100 - depeg) * diff <= bound
                   /\ 2 * (100 - depeg) * (0 - diff) <= bound

\* C18: an engine that has executed a tick was constructed with
\* depeg_percentage in [0, 100), volume > 0 and sma_length >= 1, the
\* constructor having refused every other configuration.
C18_TickedConfigIsValid ==
    ticked => (depeg \in 0 .. 99 /\ Volume > 0 /\ sma_length >= 1)

\* The engine is IDLE between two ticks.
IdleAtRest == pc = "idle" /\ active_order = None /\ ~in_position

\* C19: under fairness the engine returns to IDLE again and again (in every
\* behaviour in which the exchange still takes orders, that is, in which fewer
\* than MaxOrders were placed).
C19_AlwaysReturnsToIdle ==
    <>(Len(orders) = MaxOrders) \/ []<>IdleAtRest

\* C20: in live mode, a tick that starts IN_POSITION and reads a status other
\* than 'closed' for its order makes no place, cancel or update call and
\* leaves active_order, entry_sma and in_position as they were.
C20_UnfilledSellLeftAlone ==
    (/\ ~test_mode
     /\ Returned
     /\ StartInPosition
     /\ order_details.status \notin {"", "closed"})
        => /\ tick_calls = <<>>
           /\ engine = tick_start
           /\ tick_failed = ""

\* Such a tick has returned: the sell order it tracks is still open.
C20_Witness ==
    /\ ~test_mode
    /\ Returned
    /\ StartInPosition
    /\ order_details.status = "open"
    /\ orders[active_order].side = "sell"
    /\ tick_calls = <<>>

\* The state derived from <<active_order, entry_sma, in_position>>.
DerivedState(e) ==
    IF e[1] = None /\ ~e[3] THEN "IDLE"
    ELSE IF e[1] # None /\ ~e[3] THEN "BUY_PENDING"
    ELSE IF e[1] # None /\ e[3] THEN "IN_POSITION"
    ELSE "NONE"

\* The moves of the derived state that a tick may make.
TickMoves ==
    {<<"IDLE", "BUY_PENDING">>, <<"BUY_PENDING", "IN_POSITION">>,
     <<"BUY_PENDING", "IDLE">>, <<"IN_POSITION", "IDLE">>}

\* C21: a tick leaves the derived state as it was or moves it along
\* IDLE -> BUY_PENDING, BUY_PENDING -> IN_POSITION, BUY_PENDING -> IDLE or
\* IN_POSITION -> IDLE; in particular never IDLE -> IN_POSITION nor
\* IN_POSITION -> BUY_PENDING.
C21_TickMovesAlongCycle ==
    Returned =>
        LET from == DerivedState(tick_start)
            to == DerivedState(engine)
        IN  /\ from # "NONE"
            /\ from = to \/ <<from, to>> \in TickMoves

\* A tick has closed the position (IN_POSITION -> IDLE) in a run in which a
\* buy order was re-priced earlier (BUY_PENDING -> IDLE).
C21_Witness ==
    /\ Returned
    /\ DerivedState(tick_start) = "IN_POSITION"
    /\ DerivedState(engine) = "IDLE"
    /\ \E id \in DOMAIN orders : orders[id].status = "canceled"

\* The calls of the tick that update_limit_order made.
UpdateCalls == {i \in DOMAIN tick_calls : tick_calls[i].via = "update"}

\* C22: update_limit_order first issues the cancel for the order it was
\* given and only after it succeeded places one order, not validate-only,
\* for the configured volume, the given side and the new price; when the
\* cancel fails nothing is placed and the error reaches the caller.
C22_UpdateCancelsThenPlaces ==
    /\ \A i \in UpdateCalls :
         /\ tick_calls[i].op = "cancel" =>
              /\ \A j \in UpdateCalls : j >= i
              /\ tick_calls[i].id = tick_start[1]
              /\ ~tick_calls[i].ok =>
                   /\ i = Len(tick_calls)
                   /\ pc = "idle"
                   /\ tick_failed = "cancel_order"
              /\ (tick_calls[i].ok /\ pc = "idle") => i + 1 = Len(tick_calls)
         /\ tick_calls[i].op = "place" =>
              /\ i - 1 \in UpdateCalls
              /\ tick_calls[i - 1].op = "cancel"
              /\ tick_calls[i - 1].ok
              /\ i = Len(tick_calls)
              /\ tick_calls[i].side = "buy"
              /\ tick_calls[i].price = target_price
              /\ tick_calls[i].volume = Volume
              /\ ~tick_calls[i].validate
              /\ tick_calls[i].ok =>
                   /\ orders[tick_calls[i].id].status \in {"open", "closed"}
                   /\ orders[tick_calls[i].id].price = target_price
                   /\ orders[tick_calls[i].id].side = "buy"
         /\ tick_calls[i].op \in {"cancel", "place"}
    /\ pc = "update_place" =>
         /\ tick_calls # <<>>
         /\ tick_calls[Len(tick_calls)].op = "cancel"
         /\ tick_calls[Len(tick_calls)].ok
         /\ orders[tick_start[1]].status = "canceled"

\* update_limit_order has returned: the order it was given is cancelled and
\* one order rests at the new price, which is another price.
C22_Witness ==
    /\ Returned
    /\ Len(tick_calls) = 2
    /\ UpdateCalls = {1, 2}
    /\ tick_calls[2].ok
    /\ orders[tick_calls[1].id].status = "canceled"
    /\ orders[tick_calls[2].id].status = "open"
    /\ orders[tick_calls[2].id].price # orders[tick_calls[1].id].price

\* C23: in live mode, the order whose fill takes the engine from IN_POSITION
\* back to IDLE is a sell order that the engine placed for that position, so
\* that a filled sell lies between any two filled buys.
C23_PositionClosedBySell ==
    (/\ ~test_mode
     /\ Returned
     /\ StartInPosition
     /\ DerivedState(engine) = "IDLE")
        => orders[tick_start[1]].side = "sell"

\* C24: in live mode, when a tick that started IDLE placed a buy order at a
\* price p, the balance read in that tick covers volume * p.
C24_BalanceCoversPlacedBuy ==
    (/\ ~test_mode
     /\ Returned
     /\ StartIdle
     /\ Len(tick_calls) = 1
     /\ tick_calls[1].op = "place"
     /\ tick_calls[1].ok
     /\ tick_calls[1].price # NaN)
        => BalanceOf(balance) >= RequiredFunds(tick_calls[1].price)

\* The engine is in BUY_PENDING on an order that the exchange reports
\* cancelled.
TracksDeadOrder ==
    /\ ~test_mode
    /\ active_order # None
    /\ ~in_position
    /\ orders[active_order].status = "canceled"

\* C25: in live mode, under fairness, an engine that tracks a cancelled buy
\* order does not track it forever: some later tick clears or replaces
\* active_order.
C25_DeadOrderIsDropped == TracksDeadOrder ~> ~TracksDeadOrder

\* The orders for which handle_shutdown issued a cancel.
ShutdownCancelled ==
    {shutdown_log[i].cancel : i \in DOMAIN shutdown_log} \ {None}

\* C26: in live mode, when the process has exited, a cancel was issued at
\* shutdown for every order of the engine that is still open on the exchange.
C26_NoOrderLeftOpenAtExit ==
    (~test_mode /\ pc = "exited") => OpenOrders \subseteq ShutdownCancelled

\* The step is the call of execute().
ExecuteStarts == loop = "call" /\ loop' = "test"

\* C27, as claimed: no execute() call starts once the shutdown flag is set.
C27_NoExecuteAfterFlag == [][ExecuteStarts => running]_vars

\* C27, amended: once the flag is set the loop does not pass its test again,
\* so that no execute() call starts other than the one the loop had already
\* passed its test for; and the process exits only from the loop's test,
\* with the flag set and no tick in progress, through the shutdown cleanup.
C27_NoLoopPassAfterFlag ==
    [][/\ ~running => (~running' /\ (loop = "test" => loop' = "test"))
       /\ (pc' = "exited" /\ pc # "exited") =>
            /\ ~running
            /\ loop = "test"
            /\ pc = "idle"
            /\ Len(shutdown_log') = Len(shutdown_log) + 1
            /\ shutdown_log'[Len(shutdown_log')].by = "finally"]_vars

\* The handler set the flag when no tick was in progress and nothing was
\* tracked, after the loop had passed its test; the tick that followed placed
\* an order, which the cleanup cancelled at exit.
C27_Witness ==
    /\ pc = "exited"
    /\ Len(shutdown_log) = 2
    /\ shutdown_log[1].by = "signal"
    /\ shutdown_log[1].committed
    /\ shutdown_log[1].active = None
    /\ shutdown_log[2].by = "finally"
    /\ shutdown_log[2].cancel # None
    /\ shutdown_log[2].ok

\* C28: in every state, in both modes and at every step of a tick,
\* in_position implies that active_order is set.
C28_InPositionTracksAnOrder == in_position => active_order # None

\* The engine is in position between two ticks, tracking the sell order it
\* placed.
C28_Witness ==
    /\ Returned
    /\ in_position
    /\ active_order # None
    /\ orders[active_order].side = "sell"
    /\ active_order # tick_start[1]

====
